---- MODULE Spec2Model ----
(***************************************************************************)
(* Frame-by-frame drowsiness decision engine of the Drowsiness and Yawn    *)
(* Detection System: the debounce counters of MediaPipeDrowsinessDetector  *)
(* and BasicOpenCVDetector, the dlib loop of drowsiness_detection_task and *)
(* the alert counters of production_drowsiness_detection.                  *)
(*                                                                         *)
(* One behaviour is one monitoring session.  Init picks the session's      *)
(* backend and its configured ear_frames; every step processes one frame.  *)
(* The production loop runs with either detector class of the repository   *)
(* that offers detect_drowsiness.  Ratios are integers in hundredths (0.25 *)
(* is 25); ear_frames is drawn from 1..MaxEarFrames.  Calls to external    *)
(* collaborators (Alert.save, e-mail, espeak) are taken to return.         *)
(* frame_count of the production loop only paces a log line and is left    *)
(* out; counters are capped at MaxCount in the guards.                     *)
(*                                                                         *)
(* Three further specifications cover what surrounds the engine:           *)
(*   SpecReplay   two MediaPipeDrowsinessDetector instances fed one tape   *)
(*                of frames;                                               *)
(*   SpecService  DetectionFactory.create_detector and the DetectionService*)
(*                singleton;                                               *)
(*   SpecSession  start_monitoring_sync / stop_monitoring_sync, the        *)
(*                detection threads they start and the life of the task    *)
(*                each thread runs (camera open, frame loop, release).     *)
(* Each specification moves its own variables and leaves the others at the *)
(* values of a program that has not touched them.                          *)
(***************************************************************************)
EXTENDS Integers, Sequences, FiniteSets, TLC

\* ---------------------------------------------------------------- bounds
MaxCount == 4
MaxFaces == 2
MaxEarFrames == 2
MaxTape == 4
MaxCalls == 2
MaxThreads == 2
MaxAlertFrames == 4
MaxGap == 3
MaxClock == 6

\* ------------------------------------------------------ program constants
EAR_THRESHOLD == 25
MOUTH_AR_THRESHOLD == 70
CONSECUTIVE_FRAMES == 3
closed_eye_threshold == 10
consecutive_frames == 3
ear_thresh == 30
yawn_thresh == 20
DefaultEar == 30
\* update_settings: thresholds in hundredths.
DefaultEarThreshold == 30
DefaultEarFrames == 30
DefaultYawnThreshold == 20
EarThresholdMin == 10
EarThresholdMax == 80
EarFramesMin == 5
EarFramesMax == 100
YawnThresholdMin == 5
YawnThresholdMax == 50

VARIABLES
    backend,              \* "mediapipe" | "basic": production loop with that detector; "dlib": dlib loop
    ear_frames,           \* configured consecutive-frame setting passed to the task
    ear_counter,          \* MediaPipeDrowsinessDetector.ear_counter
    mouth_counter,        \* MediaPipeDrowsinessDetector.mouth_counter
    eye_counter,          \* BasicOpenCVDetector.eye_counter
    yawn_counter,         \* BasicOpenCVDetector.yawn_counter
    COUNTER,              \* dlib loop COUNTER
    drowsiness_detected,  \* dlib loop latch
    is_drowsy,            \* drowsiness flag produced for the last frame
    is_yawning,           \* yawn flag produced for the last frame
    drowsy_frame_count,   \* production loop counter
    yawn_frame_count,     \* production loop counter
    last,                 \* what the last frame was: its shape, conditions and alerts
    eyeFed,               \* the last Window conditions fed to the drowsiness channel
    mouthFed,             \* the last Window conditions fed to the yawn channel ("-": the
                          \* backend has no yawn counter to feed)
    fedN,                 \* number of frames on which the channels were stepped, up to Window + 1
    scen,                 \* progress of each channel's input along Scenario (-1: off it)
    \* -- SpecReplay
    engines,              \* the counters of each MediaPipeDrowsinessDetector instance
    tape,                 \* the per-frame conditions recorded so far
    pos,                  \* how many frames of the tape each instance has processed
    trace,                \* what each instance returned and held after each of its frames
    \* -- SpecService
    deps,                 \* per candidate: its imports fail, work, or work with a constructor that raises
    camera_available,     \* whether cv2.VideoCapture(camera_index).isOpened() answers True
    detector,             \* DetectionService.detector: "None" or the class of the provider
    is_monitoring,        \* DetectionService.is_monitoring
    current_task,         \* DetectionService.current_task
    factory_calls,        \* calls of get_detector so far, up to MaxCalls
    started,              \* start_monitoring calls that returned True so far, up to 2
    svc_last,             \* the last call on the service and what it gave
    \* -- SpecSession
    dlib_available,       \* tasks.DLIB_AVAILABLE
    monitoring_active,    \* views_monitoring_fixed.monitoring_active
    monitoring_thread,    \* views_monitoring_fixed.monitoring_thread: 0 for None, or the thread
    threads,              \* each detection thread: where it is, its camera handle, how its task ended
    handlers,             \* each request thread inside start_monitoring_sync: where it is
    response,             \* the last JsonResponse of a view of views_monitoring_fixed: which
                          \* view gave it, its "success" and its status.is_monitoring
    session_active,       \* request.session['monitoring_active'] of the driver's session
    \* -- SpecRatio
    ear_call,             \* the last call of an eye_aspect_ratio: which one, its argument, what it gave
    \* -- SpecStore
    user_settings,        \* the driver's UserSettings row
    monitoring_session,   \* a MonitoringSession object
    clock,                \* the last value timezone.now() has given
    store_last            \* the last request or call on the two and how it went

engineVars == <<backend, ear_frames, ear_counter, mouth_counter, eye_counter,
                yawn_counter, COUNTER, drowsiness_detected, is_drowsy, is_yawning,
                drowsy_frame_count, yawn_frame_count, last, eyeFed, mouthFed, fedN, scen>>

replayVars == <<engines, tape, pos, trace>>

serviceVars == <<deps, camera_available, detector, is_monitoring, current_task,
                 factory_calls, started, svc_last>>

sessionVars == <<dlib_available, monitoring_active, monitoring_thread, threads,
                 handlers, response, session_active>>

ratioVars == <<ear_call>>

storeVars == <<user_settings, monitoring_session, clock, store_last>>

beyondEngine == <<replayVars, serviceVars, sessionVars, ratioVars, storeVars>>

vars == <<engineVars, beyondEngine>>

\* ------------------------------------------------------------- inputs
\* Sample values for a comparison with a threshold: one on each side of
\* "< thr" (below it, on it) and of "> thr" (on it, above it).
Below(thr) == {thr - 5, thr}
Above(thr) == {thr, thr + 5}

\* What get_landmarks hands to detect_drowsiness: nothing, or both eyes with
\* the mouth list (eight points, or empty: the branch of line 129).
Landmarks ==
    {[face |-> FALSE, avg_ear |-> 0, has_mouth |-> FALSE, mar |-> 0]}
    \cup [face : {TRUE}, avg_ear : Below(EAR_THRESHOLD), has_mouth : {TRUE},
          mar : Above(MOUTH_AR_THRESHOLD)]
    \cup [face : {TRUE}, avg_ear : Below(EAR_THRESHOLD), has_mouth : {FALSE}, mar : {0}]

\* One rectangle of the face cascade as the basic detector sees it: the
\* number of eye boxes, their area ratio (calculate_eye_ratio), and the
\* verdict of the mouth contour heuristic (detect_yawn_basic).  One eye box
\* of ample area, or two of either area.
BasicFace ==
    [n_eyes : {1}, eye_ratio : {closed_eye_threshold}, yawn : BOOLEAN]
    \cup [n_eyes : {2}, eye_ratio : Below(closed_eye_threshold), yawn : BOOLEAN]

\* One rectangle of the dlib loop: ear of final_ear, distance of lip_distance.
DlibFace == [ear : Below(ear_thresh), distance : Above(yawn_thresh)]

RECURSIVE SeqsUpTo(_, _)
SeqsUpTo(S, n) ==
    IF n = 0 THEN {<<>>}
    ELSE LET shorter == SeqsUpTo(S, n - 1)
         IN  shorter \cup {Append(s, x) : s \in {t \in shorter : Len(t) = n - 1}, x \in S}

\* The faces of one frame, in the order the cascade returns them.
BasicFrames == SeqsUpTo(BasicFace, MaxFaces)
DlibFrames == SeqsUpTo(DlibFace, MaxFaces)

\* ----------------------------------------------------------- helpers
Max(a, b) == IF a >= b THEN a ELSE b

\* The conditions remembered per channel: enough for the largest threshold.
Window == Max(Max(CONSECUTIVE_FRAMES, consecutive_frames), MaxEarFrames)

Push(h, c) == IF Len(h) < Window THEN Append(h, c) ELSE Append(Tail(h), c)

\* The condition of a frame over all its faces: "T" when every face meets it,
\* "F" when none does, "X" when the faces disagree.
CondOf(S) == IF S = {TRUE} THEN "T" ELSE IF S = {FALSE} THEN "F" ELSE "X"

Scenario == <<TRUE, TRUE, TRUE, FALSE, TRUE, TRUE, TRUE>>
ScenarioFlags == <<FALSE, FALSE, TRUE, FALSE, FALSE, FALSE, TRUE>>

ScenStep(p, c) ==
    IF p >= 0 /\ p < Len(Scenario) /\ c = (IF Scenario[p + 1] THEN "T" ELSE "F")
    THEN p + 1 ELSE -1

\* ------------------------------------- MediaPipeDrowsinessDetector
\* The drowsiness channel with the production loop's decay in place of the reset.
MPEarChannel_Decay(c, avg_ear) ==
    IF avg_ear < EAR_THRESHOLD
    THEN [counter |-> c + 1, flag |-> c + 1 >= CONSECUTIVE_FRAMES]
    ELSE [counter |-> Max(0, c - 1), flag |-> FALSE]

\* Lines 132-139: the drowsiness channel on a frame with landmarks.
MPEarChannel(c, avg_ear) ==
    IF avg_ear < EAR_THRESHOLD
    THEN [counter |-> c + 1, flag |-> c + 1 >= CONSECUTIVE_FRAMES]
    ELSE [counter |-> 0, flag |-> FALSE]

\* The yawn channel comparing with > where the code has >=.
MPMouthChannel_Late(c, mouth_ar) ==
    IF mouth_ar > MOUTH_AR_THRESHOLD
    THEN [counter |-> c + 1, flag |-> c + 1 > CONSECUTIVE_FRAMES]
    ELSE [counter |-> 0, flag |-> FALSE]

\* Lines 141-147: the yawn channel on a frame with landmarks.
MPMouthChannel(c, mouth_ar) ==
    IF mouth_ar > MOUTH_AR_THRESHOLD
    THEN [counter |-> c + 1, flag |-> c + 1 >= CONSECUTIVE_FRAMES]
    ELSE [counter |-> 0, flag |-> FALSE]

\* detect_drowsiness returning early on an empty mouth list as it does
\* without landmarks.
MPDetect_NoMouthReturns(ec, mc, lm) ==
    IF ~lm.face \/ ~lm.has_mouth
    THEN [ear_counter |-> ec, mouth_counter |-> mc,
          is_drowsy |-> FALSE, is_yawning |-> FALSE]
    ELSE LET e == MPEarChannel(ec, lm.avg_ear)
             m == MPMouthChannel(mc, lm.mar)
         IN  [ear_counter |-> e.counter, mouth_counter |-> m.counter,
              is_drowsy |-> e.flag, is_yawning |-> m.flag]

\* detect_drowsiness with the yawn check in the else branch of the
\* drowsiness check, the way draw_annotations orders its status text.
MPDetect_DrowsyFirst(ec, mc, lm) ==
    IF ~lm.face
    THEN [ear_counter |-> ec, mouth_counter |-> mc,
          is_drowsy |-> FALSE, is_yawning |-> FALSE]
    ELSE LET mouth_ar == IF lm.has_mouth THEN lm.mar ELSE 0
             e == MPEarChannel(ec, lm.avg_ear)
             m == MPMouthChannel(mc, mouth_ar)
         IN  IF lm.avg_ear < EAR_THRESHOLD
             THEN [ear_counter |-> e.counter, mouth_counter |-> mc,
                   is_drowsy |-> e.flag, is_yawning |-> FALSE]
             ELSE [ear_counter |-> e.counter, mouth_counter |-> m.counter,
                   is_drowsy |-> e.flag, is_yawning |-> m.flag]

\* detect_drowsiness: the early return without landmarks leaves both
\* counters as they were; an empty mouth list leaves mouth_ar at 0.0.
MPDetect(ec, mc, lm) ==
    IF ~lm.face
    THEN [ear_counter |-> ec, mouth_counter |-> mc,
          is_drowsy |-> FALSE, is_yawning |-> FALSE]
    ELSE LET mouth_ar == IF lm.has_mouth THEN lm.mar ELSE 0
             e == MPEarChannel(ec, lm.avg_ear)
             m == MPMouthChannel(mc, mouth_ar)
         IN  [ear_counter |-> e.counter, mouth_counter |-> m.counter,
              is_drowsy |-> e.flag, is_yawning |-> m.flag]

\* ---------------------------------------------- BasicOpenCVDetector
BasicClosed(f) == f.n_eyes < 2 \/ f.eye_ratio < closed_eye_threshold

\* One pass of the loop over faces (lines 37-83).
BasicFaceStep(st, f) ==
    LET ec == IF BasicClosed(f) THEN st.eye_counter + 1 ELSE 0
    IN  [eye_counter |-> ec,
         is_drowsy |-> st.is_drowsy \/ (BasicClosed(f) /\ ec >= consecutive_frames),
         is_yawning |-> f.yawn]

RECURSIVE BasicLoop(_, _)
BasicLoop(st, faces) ==
    IF faces = <<>> THEN st ELSE BasicLoop(BasicFaceStep(st, Head(faces)), Tail(faces))

BasicDetect(ec, faces) ==
    BasicLoop([eye_counter |-> ec, is_drowsy |-> FALSE, is_yawning |-> FALSE], faces)

\* ------------------------------------------------------- dlib loop
\* One pass of the loop with the alert created on every pass at or past the
\* threshold, drowsiness_detected not consulted.
DlibFaceStep_NoLatch(st, f, T) ==
    LET closed == f.ear < ear_thresh
        c == IF closed THEN st.COUNTER + 1 ELSE 0
        trig == closed /\ c >= T
    IN  [COUNTER |-> c,
         drowsiness_detected |-> IF closed THEN st.drowsiness_detected \/ trig ELSE FALSE,
         drawnD |-> st.drawnD \/ trig,
         drawnY |-> st.drawnY \/ f.distance > yawn_thresh,
         alertD |-> st.alertD \/ trig,
         alertY |-> st.alertY \/ f.distance > yawn_thresh]

\* One pass of the loop over rects (lines 131-226).  alarm_status2 and
\* saying are False again at the end of every pass, so a yawn alert is
\* created on every pass with distance > yawn_thresh.
DlibFaceStep(st, f, T) ==
    LET closed == f.ear < ear_thresh
        c == IF closed THEN st.COUNTER + 1 ELSE 0
        trig == closed /\ c >= T
    IN  [COUNTER |-> c,
         drowsiness_detected |-> IF closed THEN st.drowsiness_detected \/ trig ELSE FALSE,
         drawnD |-> st.drawnD \/ trig,
         drawnY |-> st.drawnY \/ f.distance > yawn_thresh,
         alertD |-> st.alertD \/ (trig /\ ~st.drowsiness_detected),
         alertY |-> st.alertY \/ f.distance > yawn_thresh]

RECURSIVE DlibLoop(_, _, _)
DlibLoop(st, rects, T) ==
    IF rects = <<>> THEN st ELSE DlibLoop(DlibFaceStep(st, Head(rects), T), Tail(rects), T)

DlibFrameResult(c, d, rects, T) ==
    DlibLoop([COUNTER |-> c, drowsiness_detected |-> d, drawnD |-> FALSE,
              drawnY |-> FALSE, alertD |-> FALSE, alertY |-> FALSE], rects, T)

\* ------------------------------- production_drowsiness_detection
\* Lines 291-323 and 326-341: count a flagged frame, alert and start over
\* at ear_frames, decay by one on an unflagged frame.
\* A hard reset in place of the decay.
ProdDecay_Reset(c) == 0

\* The decay without its floor.
ProdDecay_NoFloor(c) == c - 1

ProdDecay(c) == Max(0, c - 1)

\* The two branches the wrong way round: decay when flagged, count when not.
ProdCount_Swapped(c, flag, T) ==
    IF ~flag
    THEN IF c + 1 >= T THEN [count |-> 0, alert |-> TRUE]
         ELSE [count |-> c + 1, alert |-> FALSE]
    ELSE [count |-> ProdDecay(c), alert |-> FALSE]

ProdCount(c, flag, T) ==
    IF flag
    THEN IF c + 1 >= T THEN [count |-> 0, alert |-> TRUE]
         ELSE [count |-> c + 1, alert |-> FALSE]
    ELSE [count |-> ProdDecay(c), alert |-> FALSE]

\* Both counters of one iteration: each from its own flag (lines 291, 326).
ProdCounts(dfc, yfc, drowsy, yawning, T) ==
    [drowsy |-> ProdCount(dfc, drowsy, T), yawn |-> ProdCount(yfc, yawning, T)]

\* ------------------------------------------------------ the session
NoFrame == [kind |-> "init", eye |-> "-", mouth |-> "-", partial |-> FALSE,
            alertD |-> FALSE, alertY |-> FALSE]

\* The engine of a session that runs backend b with ear_frames T, before
\* its first frame.
EngineFresh(b, T) ==
    /\ backend = b
    /\ ear_frames = T
    /\ ear_counter = 0
    /\ mouth_counter = 0
    /\ eye_counter = 0
    /\ yawn_counter = 0
    /\ COUNTER = 0
    /\ drowsiness_detected = FALSE
    /\ is_drowsy = FALSE
    /\ is_yawning = FALSE
    /\ drowsy_frame_count = 0
    /\ yawn_frame_count = 0
    /\ last = NoFrame
    /\ eyeFed = <<>>
    /\ mouthFed = <<>>
    /\ fedN = 0
    /\ scen = [eye |-> 0, mouth |-> 0]

\* The variables of a specification that is not the one running.
EngineParked == EngineFresh("mediapipe", 1)

ReplayParked ==
    /\ engines = <<>>
    /\ tape = <<>>
    /\ pos = <<>>
    /\ trace = <<>>

\* The service module imported and not called, every candidate usable.
ServiceParked ==
    /\ deps = [c \in {"DlibDrowsinessDetector", "MediaPipeDrowsinessDetector",
                      "BasicOpenCVDetector"} |-> "present"]
    /\ camera_available = TRUE
    /\ detector = "None"
    /\ is_monitoring = FALSE
    /\ current_task = "None"
    /\ factory_calls = 0
    /\ started = 0
    /\ svc_last = [op |-> "-", result |-> "-", made |-> "-", detector_type |-> "-",
                   opened |-> 0, released |-> 0]

\* The views module imported, no request made.
SessionParked ==
    /\ dlib_available = FALSE
    /\ monitoring_active = FALSE
    /\ monitoring_thread = 0
    /\ threads = <<>>
    /\ handlers = <<>>
    /\ response = [to |-> "-", success |-> FALSE, is_monitoring |-> FALSE]
    /\ session_active = FALSE

\* No eye_aspect_ratio called on its own.
RatioParked == ear_call = [fn |-> "-", eye |-> <<>>, kind |-> "-", value |-> 0]

\* The driver's row with the defaults of the model, no session object.
StoreParked ==
    /\ user_settings = [ear_threshold |-> DefaultEarThreshold,
                        ear_frames |-> DefaultEarFrames,
                        yawn_threshold |-> DefaultYawnThreshold]
    /\ monitoring_session = [status |-> "-", start_time |-> -1, end_time |-> -1,
                             duration |-> -1]
    /\ clock = 0
    /\ store_last = [op |-> "-", result |-> "-", post |-> <<>>]

LibraryParked == RatioParked /\ StoreParked

Init ==
    /\ \E b \in {"mediapipe", "basic", "dlib"}, T \in 1..MaxEarFrames : EngineFresh(b, T)
    /\ ReplayParked
    /\ ServiceParked
    /\ SessionParked
    /\ LibraryParked

\* The record of a frame on which the channels were stepped.
Feed(eye, mouth) ==
    /\ eyeFed' = Push(eyeFed, eye)
    /\ mouthFed' = Push(mouthFed, mouth)
    /\ fedN' = IF fedN <= Window THEN fedN + 1 ELSE fedN
    /\ scen' = [eye |-> ScenStep(scen.eye, eye), mouth |-> ScenStep(scen.mouth, mouth)]

\* Lines 290-341 of the production loop, after the detector has returned.
ProdHandle(drowsy, yawning, kind, eye, mouth, partial) ==
    \E n \in {ProdCounts(drowsy_frame_count, yawn_frame_count, drowsy, yawning,
                          ear_frames)} :
        /\ is_drowsy' = drowsy
        /\ is_yawning' = yawning
        /\ drowsy_frame_count' = n.drowsy.count
        /\ yawn_frame_count' = n.yawn.count
        /\ last' = [kind |-> kind, eye |-> eye, mouth |-> mouth, partial |-> partial,
                    alertD |-> n.drowsy.alert, alertY |-> n.yawn.alert]

\* Lines 350-352: detect_drowsiness raised (cvtColor, the landmark or cascade
\* call) before it touched a counter; the loop goes on with the next frame.
ProdError ==
    /\ last' = [NoFrame EXCEPT !.kind = "error"]
    /\ UNCHANGED <<ear_counter, mouth_counter, eye_counter, yawn_counter, is_drowsy,
                   is_yawning, drowsy_frame_count, yawn_frame_count, eyeFed, mouthFed,
                   fedN, scen>>

\* One iteration of production_drowsiness_detection with the MediaPipe detector.
ProductionFrameMP ==
    /\ backend = "mediapipe"
    /\ \/ ProdError
       \/ \E lm \in Landmarks :
              \E r \in {MPDetect(ear_counter, mouth_counter, lm)},
                 eye \in {IF lm.avg_ear < EAR_THRESHOLD THEN "T" ELSE "F"},
                 mouth \in {IF lm.has_mouth /\ lm.mar > MOUTH_AR_THRESHOLD THEN "T" ELSE "F"} :
                  /\ r.ear_counter <= MaxCount /\ r.mouth_counter <= MaxCount
                  /\ ear_counter' = r.ear_counter
                  /\ mouth_counter' = r.mouth_counter
                  /\ IF lm.face
                     THEN /\ Feed(eye, mouth)
                          /\ ProdHandle(r.is_drowsy, r.is_yawning, "face", eye, mouth,
                                        ~lm.has_mouth)
                     ELSE /\ UNCHANGED <<eyeFed, mouthFed, fedN, scen>>
                          /\ ProdHandle(r.is_drowsy, r.is_yawning, "noface", "-", "-", FALSE)
                  /\ UNCHANGED <<eye_counter, yawn_counter>>
    /\ UNCHANGED <<backend, ear_frames, COUNTER, drowsiness_detected>>
    /\ UNCHANGED beyondEngine

\* One iteration of production_drowsiness_detection with the basic detector.
ProductionFrameBasic ==
    /\ backend = "basic"
    /\ \/ ProdError
       \/ \E faces \in BasicFrames :
              \E r \in {BasicDetect(eye_counter, faces)},
                 eye \in {CondOf({BasicClosed(faces[i]) : i \in 1..Len(faces)})},
                 mouth \in {CondOf({faces[i].yawn : i \in 1..Len(faces)})} :
                  /\ r.eye_counter <= MaxCount
                  /\ eye_counter' = r.eye_counter
                  /\ IF faces # <<>>
                     THEN /\ Feed(eye, "-")
                          /\ ProdHandle(r.is_drowsy, r.is_yawning, "face", eye, mouth, FALSE)
                     ELSE /\ UNCHANGED <<eyeFed, mouthFed, fedN, scen>>
                          /\ ProdHandle(r.is_drowsy, r.is_yawning, "noface", "-", "-", FALSE)
                  /\ UNCHANGED <<ear_counter, mouth_counter, yawn_counter>>
    /\ UNCHANGED <<backend, ear_frames, COUNTER, drowsiness_detected>>
    /\ UNCHANGED beyondEngine

\* One iteration of the dlib loop of drowsiness_detection_task (lines 114-253).
DlibFrame ==
    /\ backend = "dlib"
    /\ \E rects \in DlibFrames :
         \E r \in {DlibFrameResult(COUNTER, drowsiness_detected, rects, ear_frames)},
            eye \in {CondOf({rects[i].ear < ear_thresh : i \in 1..Len(rects)})},
            mouth \in {CondOf({rects[i].distance > yawn_thresh : i \in 1..Len(rects)})} :
             /\ r.COUNTER <= MaxCount
             /\ COUNTER' = r.COUNTER
             /\ drowsiness_detected' = r.drowsiness_detected
             /\ is_drowsy' = r.drawnD
             /\ is_yawning' = r.drawnY
             /\ IF rects # <<>>
                THEN /\ Feed(eye, "-")
                     /\ last' = [kind |-> "face", eye |-> eye, mouth |-> mouth,
                                 partial |-> FALSE, alertD |-> r.alertD, alertY |-> r.alertY]
                ELSE /\ UNCHANGED <<eyeFed, mouthFed, fedN, scen>>
                     /\ last' = [NoFrame EXCEPT !.kind = "noface"]
    /\ UNCHANGED <<backend, ear_frames, ear_counter, mouth_counter, eye_counter,
                   yawn_counter, drowsy_frame_count, yawn_frame_count>>
    /\ UNCHANGED beyondEngine

Next == ProductionFrameMP \/ ProductionFrameBasic \/ DlibFrame

Spec == Init /\ [][Next]_vars

TypeOK ==
    /\ backend \in {"mediapipe", "basic", "dlib"}
    /\ fedN \in 0..(Window + 1)
    /\ is_drowsy \in BOOLEAN /\ is_yawning \in BOOLEAN

\* ------------------------------------------------- reading a state
\* The drowsiness channel of the session's backend, and the yawn channel
\* where the backend debounces it (the MediaPipe detector alone does).
Threshold ==
    CASE backend = "mediapipe" -> CONSECUTIVE_FRAMES
      [] backend = "basic" -> consecutive_frames
      [] OTHER -> ear_frames

Channels == IF backend = "mediapipe" THEN {"eye", "mouth"} ELSE {"eye"}

Counter(ch) ==
    IF ch = "mouth" THEN mouth_counter
    ELSE CASE backend = "mediapipe" -> ear_counter
           [] backend = "basic" -> eye_counter
           [] OTHER -> COUNTER

Flag(ch) == IF ch = "mouth" THEN is_yawning ELSE is_drowsy
Fed(ch) == IF ch = "mouth" THEN mouthFed ELSE eyeFed
Cond(frame, ch) == IF ch = "mouth" THEN frame.mouth ELSE frame.eye
Along(ch) == IF ch = "mouth" THEN scen.mouth ELSE scen.eye

AllTrue(h) == \A i \in 1..Len(h) : h[i] = "T"

\* The last n conditions fed were all true.
RunOf(h, n) == Len(h) >= n /\ \A i \in (Len(h) - n + 1)..Len(h) : h[i] = "T"

\* The last frame stepped the channels and its flags are the ones held.
Stepped == last.kind = "face"

\* C1: from a fresh engine, a channel fed true on T-1 frames and then false
\* keeps its flag false on each of those frames, and a channel fed true on T
\* frames in a row has its flag false on frames 1..T-1 and true on frame T
\* (both MediaPipe channels, the basic eye channel, the dlib COUNTER).
C1_TriggersExactlyAtThreshold ==
    (Stepped /\ fedN <= Threshold) =>
        \A ch \in Channels :
            /\ (AllTrue(Fed(ch)) /\ fedN < Threshold) => ~Flag(ch)
            /\ (AllTrue(Fed(ch)) /\ fedN = Threshold) => Flag(ch)
            /\ (fedN = Threshold /\ RunOf(SubSeq(Fed(ch), 1, fedN - 1), fedN - 1)
                  /\ Fed(ch)[fedN] = "F") => ~Flag(ch)

\* C2: under the hard-reset policy, a frame with a face on which the
\* condition is not met (by any detected face) takes a Triggered channel
\* (counter >= threshold, flag true) to counter 0 and flag false, whatever
\* the counter was.
C2_HardResetFromTriggered ==
    [][\A ch \in Channels :
          (Counter(ch) >= Threshold /\ Flag(ch)
             /\ last'.kind = "face" /\ Cond(last', ch) = "F")
          => (Counter(ch)' = 0 /\ ~Flag(ch)'
              /\ (backend = "dlib" => ~drowsiness_detected'))]_vars

C2_Witness ==
    /\ backend = "mediapipe"
    /\ scen.eye = 4
    /\ Stepped /\ last.eye = "F"
    /\ ear_counter = 0 /\ ~is_drowsy

\* C3: for every sequence of conditions fed to a fresh hard-reset channel of
\* the MediaPipe detector, the flag of a frame is true exactly when the last
\* CONSECUTIVE_FRAMES conditions fed, that frame's included, were all true;
\* fed the conditions of Scenario it returns the flags of ScenarioFlags.
C3_FlagIffRunOfThreshold ==
    (backend = "mediapipe" /\ Stepped) =>
        \A ch \in Channels :
            /\ Flag(ch) <=> RunOf(Fed(ch), CONSECUTIVE_FRAMES)
            /\ Along(ch) > 0 => Flag(ch) = ScenarioFlags[Along(ch)]

C3_Witness ==
    /\ backend = "mediapipe"
    /\ Stepped
    /\ scen.eye = Len(Scenario)
    /\ is_drowsy

\* After a frame on which the detector returned (with a face or without).
Returned == last.kind \in {"face", "noface"}

\* C4: after every processed frame, a flag returned by the MediaPipe or the
\* basic detector is true only when its channel's counter is at or above the
\* consecutive-frame threshold (ear_counter, mouth_counter; eye_counter,
\* yawn_counter).
C4_FlagOnlyWhenCounterAtThreshold ==
    Returned =>
        /\ backend = "mediapipe" =>
              /\ is_drowsy => ear_counter >= CONSECUTIVE_FRAMES
              /\ is_yawning => mouth_counter >= CONSECUTIVE_FRAMES
        /\ backend = "basic" =>
              /\ is_drowsy => eye_counter >= consecutive_frames
              /\ is_yawning => yawn_counter >= consecutive_frames

\* C5: after a frame on which no face is detected, the debounce counters
\* are 0, whatever they were before.
C5_NoFaceResetsCounters ==
    last.kind = "noface" =>
        /\ backend = "mediapipe" => (ear_counter = 0 /\ mouth_counter = 0)
        /\ backend = "basic" => eye_counter = 0
        /\ backend = "dlib" => COUNTER = 0

\* C6: on every frame of a run of frames without landmarks the detector
\* emits NONE (neither flag), from any prior state, and both counters are 0
\* at any end of the run.
C6_NoFaceRunEmitsNoneAndZero ==
    (last.kind = "noface" /\ backend \in {"mediapipe", "basic"}) =>
        /\ ~is_drowsy /\ ~is_yawning
        /\ \A ch \in {"eye", "mouth"} :
              (IF backend = "mediapipe" THEN Counter(ch)
               ELSE IF ch = "eye" THEN eye_counter ELSE yawn_counter) = 0

\* C7: a frame with eye landmarks and an empty mouth list steps the yawn
\* channel with the condition not met (mouth_counter reset, is_yawning
\* false) and updates ear_counter and is_drowsy exactly as the same eye data
\* with any mouth data would.
C7_PartialDataStepsYawnFalse ==
    backend = "mediapipe" =>
        /\ (Stepped /\ last.partial) =>
              (mouth_counter = 0 /\ ~is_yawning /\ last.mouth = "F")
        /\ \A e \in Below(EAR_THRESHOLD) :
              LET p == MPDetect(ear_counter, mouth_counter,
                                [face |-> TRUE, avg_ear |-> e, has_mouth |-> FALSE,
                                 mar |-> 0])
              IN  /\ p.mouth_counter = 0
                  /\ ~p.is_yawning
                  /\ \A m \in Above(MOUTH_AR_THRESHOLD) :
                        LET f == MPDetect(ear_counter, mouth_counter,
                                          [face |-> TRUE, avg_ear |-> e,
                                           has_mouth |-> TRUE, mar |-> m])
                        IN  /\ f.ear_counter = p.ear_counter
                            /\ f.is_drowsy = p.is_drowsy

C7_Witness ==
    /\ backend = "mediapipe"
    /\ Stepped /\ last.partial
    /\ Len(mouthFed) >= 2 /\ mouthFed[Len(mouthFed) - 1] = "T"
    /\ mouth_counter = 0
    /\ last.eye = "T" /\ ear_counter >= 2

\* C8: every debounce counter is >= 0 in every reachable state.
C8_CountersNonNegative ==
    /\ ear_counter >= 0 /\ mouth_counter >= 0
    /\ eye_counter >= 0
    /\ COUNTER >= 0
    /\ drowsy_frame_count >= 0 /\ yawn_frame_count >= 0

C8_Witness ==
    /\ last.kind = "noface"
    /\ ~is_drowsy /\ ~is_yawning
    /\ drowsy_frame_count = 0 /\ yawn_frame_count = 0
    /\ Counter("eye") > 0

\* A frame of the production loop on which the detector returned.
ProdReturned == backend # "dlib" /\ last'.kind \in {"face", "noface"}

\* C9: over frames on which its condition holds (for every detected face)
\* no counter decreases, the production loop's drowsy_frame_count and
\* yawn_frame_count included.
C9_NoCounterDropsWhileConditionHolds ==
    [][/\ \A ch \in Channels :
             (last'.kind = "face" /\ Cond(last', ch) = "T") => Counter(ch)' >= Counter(ch)
       /\ (ProdReturned /\ is_drowsy') => drowsy_frame_count' >= drowsy_frame_count
       /\ (ProdReturned /\ is_yawning') => yawn_frame_count' >= yawn_frame_count]_vars

\* C9 as amended: the same, except that drowsy_frame_count and
\* yawn_frame_count go back to 0 on the flagged frame on which they reach
\* ear_frames and the alert is created.
C9_CounterDropsOnlyOnAlert ==
    [][/\ \A ch \in Channels :
             (last'.kind = "face" /\ Cond(last', ch) = "T") => Counter(ch)' >= Counter(ch)
       /\ (ProdReturned /\ is_drowsy') =>
             \/ drowsy_frame_count' >= drowsy_frame_count
             \/ /\ drowsy_frame_count' = 0
                /\ drowsy_frame_count + 1 >= ear_frames
                /\ last'.alertD
       /\ (ProdReturned /\ is_yawning') =>
             \/ yawn_frame_count' >= yawn_frame_count
             \/ /\ yawn_frame_count' = 0
                /\ yawn_frame_count + 1 >= ear_frames
                /\ last'.alertY]_vars

C9_Witness ==
    /\ backend = "mediapipe"
    /\ ear_frames = 2
    /\ Stepped /\ is_drowsy /\ last.alertD
    /\ drowsy_frame_count = 0
    /\ ear_counter = CONSECUTIVE_FRAMES + 1

\* What detect_drowsiness leaves of the yawn channel, and of the drowsiness
\* channel.
YawnSide(r) == <<r.mouth_counter, r.is_yawning>>
DrowsySide(r) == <<r.ear_counter, r.is_drowsy>>

C21_AlertOnConfiguredFrame ==
    (Stepped /\ AllTrue(eyeFed) /\ fedN <= ear_frames) =>
        (last.alertD <=> fedN = ear_frames)

\* C28: in the dlib loop, once a drowsiness alert has been created
\* (drowsiness_detected is set) no frame creates another one unless one of
\* its faces has ear >= ear_thresh, which resets COUNTER and clears
\* drowsiness_detected; a frame without a face creates none.
C28_OneAlertPerEpisode ==
    [][(backend = "dlib" /\ drowsiness_detected /\ last'.alertD)
       => (last'.kind = "face" /\ last'.eye \in {"F", "X"})]_vars

\* The episode goes on past the threshold, frame after frame, with no new alert.
C28_Witness ==
    /\ backend = "dlib"
    /\ drowsiness_detected
    /\ Stepped /\ last.eye = "T" /\ ~last.alertD
    /\ COUNTER >= ear_frames + 2

\* C29: one frame raises a debounce counter by at most 1, whatever the
\* number of faces in it: eye_counter of the basic detector per call,
\* COUNTER of the dlib loop per iteration.
C29_AtMostOnePerFrame ==
    [][/\ eye_counter' <= eye_counter + 1
       /\ COUNTER' <= COUNTER + 1]_vars

\* ============================================================== SpecCounters
\* production_drowsiness_detection with a detector of which only the contract
\* is used: each call of detect_drowsiness returns some pair of flags or
\* raises.  ear_frames is any value up to MaxAlertFrames, so that the alert
\* counters climb above 1 before they alert.
CountersInit == \E T \in 1..MaxAlertFrames : EngineFresh("mediapipe", T)

\* One iteration of the loop, lines 278-352.
CountersFrame ==
    /\ \/ \E drowsy \in BOOLEAN, yawning \in BOOLEAN :
              ProdHandle(drowsy, yawning, "face", "-", "-", FALSE)
       \/ /\ last' = [NoFrame EXCEPT !.kind = "error"]
          /\ UNCHANGED <<is_drowsy, is_yawning, drowsy_frame_count, yawn_frame_count>>
    /\ UNCHANGED <<backend, ear_frames, ear_counter, mouth_counter, eye_counter,
                   yawn_counter, COUNTER, drowsiness_detected, eyeFed, mouthFed,
                   fedN, scen>>
    /\ UNCHANGED beyondEngine

NextCounters == CountersFrame

InitCounters == CountersInit /\ ReplayParked /\ ServiceParked /\ SessionParked /\ LibraryParked

SpecCounters == InitCounters /\ [][NextCounters]_vars

Engines == {1, 2}

ReplayEar == {EAR_THRESHOLD - 5, EAR_THRESHOLD - 1, EAR_THRESHOLD, EAR_THRESHOLD + 5}
ReplayMar == {MOUTH_AR_THRESHOLD - 5, MOUTH_AR_THRESHOLD, MOUTH_AR_THRESHOLD + 1,
              MOUTH_AR_THRESHOLD + 5}

ReplayLandmarks ==
    {[face |-> FALSE, avg_ear |-> 0, has_mouth |-> FALSE, mar |-> 0]}
    \cup [face : {TRUE}, avg_ear : ReplayEar, has_mouth : {TRUE}, mar : ReplayMar]
    \cup [face : {TRUE}, avg_ear : ReplayEar, has_mouth : {FALSE}, mar : {0}]

\* conditionMet of a frame, per channel (lines 133 and 142).
ConditionMet(lm) ==
    [face |-> lm.face,
     eye |-> lm.face /\ lm.avg_ear < EAR_THRESHOLD,
     mouth |-> lm.face /\ lm.has_mouth /\ lm.mar > MOUTH_AR_THRESHOLD]

Conditions == {ConditionMet(lm) : lm \in ReplayLandmarks}

\* Lines 35-37: the counters a constructor call creates.
NewEngine == [ear_counter |-> 0, mouth_counter |-> 0]

\* The counters kept on the class, one pair for every instance.
StoreCounters_OnClass(es, i, r) ==
    [j \in DOMAIN es |-> [ear_counter |-> r.ear_counter, mouth_counter |-> r.mouth_counter]]

\* Lines 134-146 write self.ear_counter and self.mouth_counter: the
\* attributes of the instance the call was made on.
StoreCounters(es, i, r) ==
    [es EXCEPT ![i] = [ear_counter |-> r.ear_counter, mouth_counter |-> r.mouth_counter]]

ReplayInit ==
    /\ engines = [i \in Engines |-> NewEngine]
    /\ tape = <<>>
    /\ pos = [i \in Engines |-> 0]
    /\ trace = [i \in Engines |-> <<>>]

\* The camera delivers one more frame.
RecordFrame ==
    /\ Len(tape) < MaxTape
    /\ \E c \in Conditions : tape' = Append(tape, c)
    /\ UNCHANGED <<engines, pos, trace>>
    /\ UNCHANGED <<engineVars, serviceVars, sessionVars, ratioVars, storeVars>>

\* detect_drowsiness of instance i on its next frame of the tape.
ReplayFrame(i) ==
    /\ pos[i] < Len(tape)
    /\ \E lm \in ReplayLandmarks :
         /\ ConditionMet(lm) = tape[pos[i] + 1]
         /\ \E r \in {MPDetect(engines[i].ear_counter, engines[i].mouth_counter, lm)} :
              /\ engines' = StoreCounters(engines, i, r)
              /\ trace' = [trace EXCEPT ![i] =
                              Append(@, [is_drowsy |-> r.is_drowsy,
                                         is_yawning |-> r.is_yawning,
                                         counters |-> engines'[i]])]
    /\ pos' = [pos EXCEPT ![i] = @ + 1]
    /\ UNCHANGED tape
    /\ UNCHANGED <<engineVars, serviceVars, sessionVars, ratioVars, storeVars>>

NextReplay == RecordFrame \/ \E i \in Engines : ReplayFrame(i)

InitReplay == EngineParked /\ ServiceParked /\ SessionParked
    /\ LibraryParked /\ ReplayInit

SpecReplay == InitReplay /\ [][NextReplay]_vars

Min(a, b) == IF a <= b THEN a ELSE b

\* C11: two freshly constructed engines that process the same sequence of
\* per-frame conditions return the same flags and hold the same counter
\* values after every frame, whatever the pace of each and whatever ratios
\* each measured.
C11_ReplayIsDeterministic ==
    \A k \in 1..Min(Len(trace[1]), Len(trace[2])) : trace[1][k] = trace[2][k]

\* Both engines have run a tape that triggers: three frames with the eye
\* condition met, the one ahead already past a frame that resets it.
C11_Witness ==
    /\ Len(trace[1]) = MaxTape
    /\ Len(trace[2]) = CONSECUTIVE_FRAMES
    /\ trace[2][CONSECUTIVE_FRAMES].is_drowsy
    /\ ~trace[1][MaxTape].is_drowsy
    /\ engines[1] # engines[2]

\* =============================================================== SpecService
\* DetectionFactory.create_detector and the DetectionService singleton.  The
\* environment of a process is fixed when it starts: for each candidate,
\* whether the imports of its try block fail with ImportError ("absent"),
\* succeed with a constructor that returns ("present"), or succeed with a
\* constructor that raises something else ("broken": FaceMesh failing to
\* load its graph, cv2 built without cv2.data).
Candidates == <<"DlibDrowsinessDetector", "MediaPipeDrowsinessDetector",
                "BasicOpenCVDetector">>

DepStatus == {"absent", "present", "broken"}

\* One try block of create_detector: the imports, then the constructor call;
\* only ImportError is caught.
TryCandidate(d, c) ==
    CASE d[c] = "absent" -> "ImportError"
      [] d[c] = "broken" -> "Exception"
      [] OTHER -> c

\* create_detector with the MediaPipe block ahead of the dlib block.
create_detector_MediaPipeFirst(d) ==
    LET first == TryCandidate(d, Candidates[2])
        second == TryCandidate(d, Candidates[1])
        third == TryCandidate(d, Candidates[3])
    IN  IF first # "ImportError" THEN first
        ELSE IF second # "ImportError" THEN second
        ELSE third

\* create_detector (lines 16-40): what it returns, or the exception that
\* leaves it.  The last block turns its ImportError into a new ImportError.
create_detector(d) ==
    LET first == TryCandidate(d, Candidates[1])
        second == TryCandidate(d, Candidates[2])
        third == TryCandidate(d, Candidates[3])
    IN  IF first # "ImportError" THEN first
        ELSE IF second # "ImportError" THEN second
        ELSE third

Raised(made) == made \in {"ImportError", "Exception"}

\* start_monitoring selecting a provider on every start.
NeedsDetector_Always(det) == TRUE

\* Line 53 of start_monitoring.
NeedsDetector(det) == det = "None"

\* start_monitoring without the check of lines 48-50.
AlreadyMonitoring_Never(m) == FALSE

\* Line 48 of start_monitoring.
AlreadyMonitoring(m) == m

\* validate_camera releasing the capture only after it has seen it open.
validate_camera_ReleaseIfOpen(cv2, avail) ==
    IF cv2 = "absent"
    THEN [result |-> "CameraError", opened |-> 0, released |-> 0]
    ELSE [result |-> IF avail THEN "True" ELSE "CameraError",
          opened |-> 1, released |-> IF avail THEN 1 ELSE 0]

\* validate_camera (lines 101-114): its result, the captures it has
\* constructed and the release calls it has made.  import cv2 failing leaves
\* through the except branch before any capture exists.
validate_camera(cv2, avail) ==
    IF cv2 = "absent"
    THEN [result |-> "CameraError", opened |-> 0, released |-> 0]
    ELSE [result |-> IF avail THEN "True" ELSE "CameraError",
          opened |-> 1, released |-> 1]

ServiceInit ==
    /\ deps \in [{Candidates[i] : i \in 1..Len(Candidates)} -> DepStatus]
    /\ camera_available \in BOOLEAN
    /\ detector = "None"
    /\ is_monitoring = FALSE
    /\ current_task = "None"
    /\ factory_calls = 0
    /\ started = 0
    /\ svc_last = [op |-> "-", result |-> "-", made |-> "-", detector_type |-> "-",
                   opened |-> 0, released |-> 0]

\* initialize_detector (lines 26-39): any exception of get_detector becomes
\* ModelLoadError and self.detector is not assigned.
InitializeDetector ==
    /\ factory_calls < MaxCalls
    /\ \E made \in {create_detector(deps)} :
         /\ factory_calls' = factory_calls + 1
         /\ detector' = IF Raised(made) THEN detector ELSE made
         /\ svc_last' = [op |-> "initialize_detector",
                         result |-> IF Raised(made) THEN "ModelLoadError" ELSE "True",
                         made |-> made, detector_type |-> "-",
                         opened |-> 0, released |-> 0]
    /\ UNCHANGED <<deps, camera_available, is_monitoring, current_task, started>>
    /\ UNCHANGED <<engineVars, replayVars, sessionVars, ratioVars, storeVars>>

\* start_monitoring (lines 41-63).
StartMonitoring ==
    /\ IF AlreadyMonitoring(is_monitoring)
       THEN /\ svc_last' = [op |-> "start_monitoring", result |-> "False", made |-> "-",
                            detector_type |-> "-",
                            opened |-> 0, released |-> 0]
            /\ UNCHANGED <<detector, is_monitoring, factory_calls, started>>
       ELSE IF NeedsDetector(detector)
       THEN /\ factory_calls < MaxCalls
            /\ \E made \in {create_detector(deps)} :
                 /\ factory_calls' = factory_calls + 1
                 /\ detector' = IF Raised(made) THEN detector ELSE made
                 /\ is_monitoring' = ~Raised(made)
                 /\ started' = IF ~Raised(made) /\ started < 2 THEN started + 1 ELSE started
                 /\ svc_last' = [op |-> "start_monitoring",
                                 result |-> IF Raised(made) THEN "DetectionError" ELSE "True",
                                 made |-> made, detector_type |-> "-",
                                 opened |-> 0, released |-> 0]
       ELSE /\ is_monitoring' = TRUE
            /\ started' = IF started < 2 THEN started + 1 ELSE started
            /\ svc_last' = [op |-> "start_monitoring", result |-> "True", made |-> "-",
                            detector_type |-> "-",
                            opened |-> 0, released |-> 0]
            /\ UNCHANGED <<detector, factory_calls>>
    /\ UNCHANGED <<deps, camera_available, current_task>>
    /\ UNCHANGED <<engineVars, replayVars, sessionVars, ratioVars, storeVars>>

\* stop_monitoring (lines 65-81): nothing assigns current_task a task, so the
\* cancel branch stays closed.
StopMonitoring ==
    /\ current_task' = "None"
    /\ is_monitoring' = FALSE
    /\ svc_last' = [op |-> "stop_monitoring", result |-> "True", made |-> "-",
                    detector_type |-> "-",
                    opened |-> 0, released |-> 0]
    /\ UNCHANGED <<deps, camera_available, detector, factory_calls, started>>
    /\ UNCHANGED <<engineVars, replayVars, sessionVars, ratioVars, storeVars>>

\* get_monitoring_status (lines 83-92).
GetMonitoringStatus ==
    /\ svc_last' = [op |-> "get_monitoring_status", result |-> is_monitoring,
                    made |-> "-", detector_type |-> detector,
                    opened |-> 0, released |-> 0]
    /\ UNCHANGED <<deps, camera_available, detector, is_monitoring, current_task,
                   factory_calls, started>>
    /\ UNCHANGED <<engineVars, replayVars, sessionVars, ratioVars, storeVars>>

\* validate_camera (lines 94-114); cv2 is the module the cascade tier imports.
ValidateCamera ==
    /\ \E r \in {validate_camera(deps[Candidates[3]], camera_available)} :
         svc_last' = [op |-> "validate_camera", result |-> r.result,
                      made |-> "-", detector_type |-> "-",
                      opened |-> r.opened, released |-> r.released]
    /\ UNCHANGED <<deps, camera_available, detector, is_monitoring, current_task,
                   factory_calls, started>>
    /\ UNCHANGED <<engineVars, replayVars, sessionVars, ratioVars, storeVars>>

NextService ==
    \/ InitializeDetector
    \/ StartMonitoring
    \/ StopMonitoring
    \/ GetMonitoringStatus
    \/ ValidateCamera

InitService == EngineParked /\ ReplayParked /\ SessionParked
    /\ LibraryParked /\ ServiceInit

SpecService == InitService /\ [][NextService]_vars

\* The places in the fixed order of the candidates whose dependency is there.
PresentAt == {i \in 1..Len(Candidates) : deps[Candidates[i]] # "absent"}
UsableAt == {i \in 1..Len(Candidates) : deps[Candidates[i]] = "present"}
NoneBroken == \A i \in 1..Len(Candidates) : deps[Candidates[i]] # "broken"

\* C12: for every combination of present and absent dependencies, a call of
\* create_detector that returns gives the one provider that comes first in
\* the order dlib, MediaPipe, basic OpenCV among those whose dependency is
\* present, and it does return when one is present; with only the cascade
\* dependency present that is BasicOpenCVDetector.
C12_FirstPresentIsChosen ==
    svc_last.made # "-" =>
        /\ ~Raised(svc_last.made) =>
              /\ PresentAt # {}
              /\ \A i \in PresentAt :
                    (\A j \in PresentAt : i <= j) => svc_last.made = Candidates[i]
        /\ (NoneBroken /\ PresentAt # {}) => ~Raised(svc_last.made)
        /\ (PresentAt = {3} /\ NoneBroken) => svc_last.made = "BasicOpenCVDetector"

\* The factory has fallen through both earlier blocks to the cascade tier.
C12_Witness ==
    /\ PresentAt = {3}
    /\ svc_last.made = "BasicOpenCVDetector"
    /\ detector = "BasicOpenCVDetector"

\* C13: create_detector fails only if every candidate is unavailable: with
\* at least one candidate that imports and constructs it returns a provider,
\* even when an earlier candidate fails to import or its constructor raises;
\* with none it raises instead of returning None or a no-op detector.
C13_FailsOnlyIfNoneUsable ==
    svc_last.made # "-" =>
        /\ UsableAt # {} => ~Raised(svc_last.made)
        /\ UsableAt = {} => Raised(svc_last.made)

\* C14: once a start_monitoring that returned True has set the detector, no
\* call of start_monitoring, stop_monitoring or get_monitoring_status calls
\* get_detector again or changes the detector, and every
\* get_monitoring_status reports that detector's type.
C14_ProviderSelectedOnce ==
    [][(started >= 1 /\ detector # "None"
          /\ svc_last'.op \in {"start_monitoring", "stop_monitoring",
                               "get_monitoring_status"})
       => /\ detector' = detector
          /\ factory_calls' = factory_calls
          /\ svc_last'.made = "-"
          /\ svc_last'.op = "get_monitoring_status"
                => svc_last'.detector_type = detector]_vars

\* A second start after a stop has returned True on the detector of the first.
C14_Witness ==
    /\ started = 2
    /\ factory_calls = 1
    /\ is_monitoring
    /\ svc_last.op = "start_monitoring" /\ svc_last.result = "True"
    /\ detector = "MediaPipeDrowsinessDetector"

\* C24: validate_camera returns True exactly when the camera opens and
\* raises CameraError exactly when it does not; in both outcomes every
\* capture it has constructed has been released exactly once when it
\* finishes, and is_monitoring, detector and current_task are as before.
C24_ValidateCameraReleases ==
    [][svc_last'.op = "validate_camera" =>
          /\ svc_last'.result = "True"
                <=> (camera_available /\ deps[Candidates[3]] # "absent")
          /\ svc_last'.result # "True" => svc_last'.result = "CameraError"
          /\ svc_last'.released = svc_last'.opened
          /\ UNCHANGED <<is_monitoring, detector, current_task>>]_vars

\* A capture that did not open has been released, during monitoring.
C24_Witness ==
    /\ svc_last.op = "validate_camera" /\ svc_last.result = "CameraError"
    /\ svc_last.opened = 1 /\ svc_last.released = 1
    /\ is_monitoring /\ detector # "None"

\* C27: start_monitoring called with is_monitoring true returns False and
\* leaves is_monitoring, detector and current_task as they are; called with
\* is_monitoring false it returns True with is_monitoring true, or raises
\* DetectionError with is_monitoring false and the detector not initialized.
C27_StartWhileMonitoringIsRefused ==
    [][svc_last'.op = "start_monitoring" =>
          IF is_monitoring
          THEN /\ svc_last'.result = "False"
               /\ UNCHANGED <<is_monitoring, detector, current_task>>
          ELSE \/ svc_last'.result = "True" /\ is_monitoring'
               \/ /\ svc_last'.result = "DetectionError"
                  /\ ~is_monitoring'
                  /\ Raised(svc_last'.made) /\ detector' = "None"]_vars

\* A start has been refused while monitoring goes on.
C27_Witness ==
    /\ svc_last.op = "start_monitoring" /\ svc_last.result = "False"
    /\ is_monitoring /\ started = 1

\* C16: from any state of production_drowsiness_detection, a frame on
\* which detect_drowsiness raises leaves drowsy_frame_count and
\* yawn_frame_count at the values a frame on which it returns (False, False)
\* would leave, and neither frame creates an alert.
C16_ErrorFrameIsNoFaceFrame ==
    [][(backend # "dlib" /\ last'.kind = "error") =>
          \A n \in {ProdCounts(drowsy_frame_count, yawn_frame_count, FALSE, FALSE,
                               ear_frames)} :
              /\ drowsy_frame_count' = n.drowsy.count
              /\ yawn_frame_count' = n.yawn.count
              /\ ~n.drowsy.alert /\ ~n.yawn.alert
              /\ ~last'.alertD /\ ~last'.alertY]_vars

\* =============================================================== SpecSession
\* start_monitoring_sync and stop_monitoring_sync served by two request
\* threads, the detection threads they start, and the task each detection
\* thread runs: drowsiness_detection_task of tasks.py (the dlib loop with
\* DLIB_AVAILABLE, production_drowsiness_detection without; run_detection
\* calls its synchronous port in tasks_fixed, the first run_detection of
\* lines 102-118 calls the task itself).  One camera:
\* while a handle on it is open, another VideoCapture of it is not opened;
\* a camera that is free may still fail to open or to give a frame (it is
\* unplugged, or in use by another program) at any moment.
\* A step of a request thread is one stretch of start_monitoring_sync between
\* two points where another thread can run; a step of a detection thread in
\* its loop is one whole iteration.
Handlers == {1, 2}
Threads == 1..MaxThreads

NewThread == [pc |-> "unstarted", opened |-> FALSE, released |-> FALSE,
              end |-> "-", raised |-> FALSE, after_stop |-> -1]

\* The thread holds an open handle on the camera.
Holds(t) == threads[t].opened /\ ~threads[t].released
CameraFree == \A t \in Threads : ~Holds(t)

Respond(who, ok) == response' = [to |-> who, success |-> ok, is_monitoring |-> FALSE]

SessionInit ==
    /\ dlib_available \in BOOLEAN
    /\ monitoring_active = FALSE
    /\ monitoring_thread = 0
    /\ threads = [t \in Threads |-> NewThread]
    /\ handlers = [h \in Handlers |-> "idle"]
    /\ response = [to |-> "-", success |-> FALSE, is_monitoring |-> FALSE]
    /\ session_active = FALSE

\* start_monitoring_sync, lines 63-69: the check of monitoring_active.
StartCheck(h) ==
    /\ handlers[h] = "idle"
    /\ IF monitoring_active
       THEN /\ Respond("start", FALSE)
            /\ UNCHANGED handlers
       ELSE /\ handlers' = [handlers EXCEPT ![h] = "checked"]
            /\ UNCHANGED response
    /\ UNCHANGED <<session_active, dlib_available, monitoring_active, monitoring_thread, threads>>
    /\ UNCHANGED <<engineVars, replayVars, serviceVars, ratioVars, storeVars>>

\* Lines 71-90: the profile and settings are fetched, then the camera is
\* opened as a test and released.  A missing profile, an exception or a
\* camera that does not open answers with a failure.
StartTestCamera(h) ==
    /\ handlers[h] = "checked"
    /\ \/ /\ Respond("start", FALSE)
          /\ handlers' = [handlers EXCEPT ![h] = "idle"]
       \/ /\ CameraFree
          /\ handlers' = [handlers EXCEPT ![h] = "tested"]
          /\ UNCHANGED response
    /\ UNCHANGED <<session_active, dlib_available, monitoring_active, monitoring_thread, threads>>
    /\ UNCHANGED <<engineVars, replayVars, serviceVars, ratioVars, storeVars>>

\* Lines 142-155: the thread is created and started, the session is marked,
\* the answer is success.
StartSpawn(h) ==
    /\ handlers[h] = "tested"
    /\ \E t \in Threads :
         /\ threads[t].pc = "unstarted"
         /\ \A u \in Threads : u < t => threads[u].pc # "unstarted"
         /\ threads' = [threads EXCEPT ![t].pc = "spawned"]
         /\ monitoring_thread' = t
    /\ handlers' = [handlers EXCEPT ![h] = "idle"]
    /\ session_active' = TRUE
    /\ Respond("start", TRUE)
    /\ UNCHANGED <<dlib_available, monitoring_active>>
    /\ UNCHANGED <<engineVars, replayVars, serviceVars, ratioVars, storeVars>>

\* stop_monitoring_sync (lines 165-201): with monitoring_active false it
\* answers at once, the session untouched.  The threads in their loop at this
\* moment start counting the iterations they complete from here on.
StopMonitoringSync ==
    /\ IF monitoring_active
       THEN /\ monitoring_active' = FALSE
            /\ threads' = [t \in Threads |->
                             IF threads[t].pc = "loop" /\ threads[t].after_stop = -1
                             THEN [threads[t] EXCEPT !.after_stop = 0]
                             ELSE threads[t]]
            /\ session_active' = FALSE
            /\ Respond("stop", TRUE)
       ELSE /\ Respond("stop", FALSE)
            /\ UNCHANGED <<monitoring_active, threads, session_active>>
    /\ UNCHANGED <<dlib_available, monitoring_thread, handlers>>
    /\ UNCHANGED <<engineVars, replayVars, serviceVars, ratioVars, storeVars>>

\* get_monitoring_status (lines 204-231).
GetMonitoringStatusView ==
    /\ response' = [to |-> "status", success |-> TRUE,
                    is_monitoring |-> monitoring_active \/ session_active]
    /\ UNCHANGED <<session_active, dlib_available, monitoring_active, monitoring_thread,
                   threads, handlers>>
    /\ UNCHANGED <<engineVars, replayVars, serviceVars, ratioVars, storeVars>>

\* run_detection, lines 124-126: the thread starts to run.
ThreadBegin(t) ==
    /\ threads[t].pc = "spawned"
    /\ monitoring_active' = TRUE
    /\ threads' = [threads EXCEPT ![t].pc = "task"]
    /\ UNCHANGED <<session_active, dlib_available, monitoring_thread, handlers, response>>
    /\ UNCHANGED <<engineVars, replayVars, serviceVars, ratioVars, storeVars>>

\* The task opens the camera.  production_drowsiness_detection (lines
\* 266-273): a handle that is not opened makes it print and return, through
\* the finally that releases the handle.  The dlib path (lines 102-112):
\* VideoStream(...).start() either raises, and the task returns, or gives a
\* stream that has no frames.
OpenCamera(t) ==
    /\ threads[t].pc = "task"
    /\ \/ /\ CameraFree
          /\ threads' = [threads EXCEPT ![t].pc = "loop", ![t].opened = TRUE]
       \/ threads' = [threads EXCEPT ![t].pc = "finally", ![t].end = "open_failed"]
       \/ /\ dlib_available
          /\ threads' = [threads EXCEPT ![t].pc = "loop"]
    /\ UNCHANGED <<session_active, dlib_available, monitoring_active, monitoring_thread, handlers,
                   response>>
    /\ UNCHANGED <<engineVars, replayVars, serviceVars, ratioVars, storeVars>>

\* The iterations a looping thread has completed since the stop request, up to 2.
CountCycle(th) ==
    IF th.after_stop \in 0..1 THEN [th EXCEPT !.after_stop = @ + 1] ELSE th

\* The task has left its loop with the handle released (cap.release of line
\* 358, vs.stop of line 256).
LeaveReleased(th, how) ==
    [th EXCEPT !.pc = "finally", !.end = how, !.released = th.opened]

\* The task has left its loop by an exception, past the statements that
\* follow the loop.
LeaveRaised(th, how) ==
    [th EXCEPT !.pc = "finally", !.end = how, !.raised = TRUE]

\* A frame is read and processed to the end of the iteration (lines 279-348,
\* 115-253).
FrameOk(t) ==
    /\ threads[t].pc = "loop"
    /\ Holds(t)
    /\ threads' = [threads EXCEPT ![t] = CountCycle(@)]
    /\ UNCHANGED <<session_active, dlib_available, monitoring_active, monitoring_thread, handlers,
                   response>>
    /\ UNCHANGED <<engineVars, replayVars, serviceVars, ratioVars, storeVars>>

\* A per-frame exception in the dlib loop: the loop has no handler.
FrameRaisesDlib(th) == LeaveRaised(th, "frame_error")

\* A frame is read and its landmark extraction or feature computation
\* raises.  The production loop catches it (lines 350-352) and goes on.
FrameRaises(t) ==
    /\ threads[t].pc = "loop"
    /\ Holds(t)
    /\ threads' = [threads EXCEPT ![t] = IF dlib_available THEN FrameRaisesDlib(@)
                                         ELSE CountCycle(@)]
    /\ UNCHANGED <<session_active, dlib_available, monitoring_active, monitoring_thread, handlers,
                   response>>
    /\ UNCHANGED <<engineVars, replayVars, serviceVars, ratioVars, storeVars>>

\* The read gives no frame (lines 280-282, 116-118): the loop ends.
ReadFails(t) ==
    /\ threads[t].pc = "loop"
    /\ threads' = [threads EXCEPT ![t] = LeaveReleased(@, "no_frame")]
    /\ UNCHANGED <<session_active, dlib_available, monitoring_active, monitoring_thread, handlers,
                   response>>
    /\ UNCHANGED <<engineVars, replayVars, serviceVars, ratioVars, storeVars>>

\* cap.read itself raises in the production loop: the outer handler and the
\* finally of lines 354-358 end the task.
ReadRaises(t) ==
    /\ threads[t].pc = "loop"
    /\ ~dlib_available
    /\ Holds(t)
    /\ threads' = [threads EXCEPT ![t] = LeaveReleased(@, "read_error")]
    /\ UNCHANGED <<session_active, dlib_available, monitoring_active, monitoring_thread, handlers,
                   response>>
    /\ UNCHANGED <<engineVars, replayVars, serviceVars, ratioVars, storeVars>>

\* The quit key of the dlib loop (lines 248-251).
QuitKey(t) ==
    /\ threads[t].pc = "loop"
    /\ dlib_available
    /\ Holds(t)
    /\ threads' = [threads EXCEPT ![t] = LeaveReleased(@, "quit")]
    /\ UNCHANGED <<session_active, dlib_available, monitoring_active, monitoring_thread, handlers,
                   response>>
    /\ UNCHANGED <<engineVars, replayVars, serviceVars, ratioVars, storeVars>>

\* A thread that is over: what is left of it is the handle it has or has not
\* released.
Dead(th) == [NewThread EXCEPT !.pc = "dead", !.opened = th.opened, !.released = th.released]

\* run_detection, lines 137-140: the task has returned or raised.
ThreadEnd(t) ==
    /\ threads[t].pc = "finally"
    /\ monitoring_active' = FALSE
    /\ threads' = [threads EXCEPT ![t] = Dead(@)]
    /\ UNCHANGED <<session_active, dlib_available, monitoring_thread, handlers, response>>
    /\ UNCHANGED <<engineVars, replayVars, serviceVars, ratioVars, storeVars>>

NextSession ==
    \/ StopMonitoringSync
    \/ GetMonitoringStatusView
    \/ \E h \in Handlers : StartCheck(h) \/ StartTestCamera(h) \/ StartSpawn(h)
    \/ \E t \in Threads :
          \/ ThreadBegin(t)
          \/ OpenCamera(t)
          \/ FrameOk(t)
          \/ FrameRaises(t)
          \/ ReadFails(t)
          \/ ReadRaises(t)
          \/ QuitKey(t)
          \/ ThreadEnd(t)

InitSession == EngineParked /\ ReplayParked /\ ServiceParked
    /\ LibraryParked /\ SessionInit

SpecSession == InitSession /\ [][NextSession]_vars

Ended(t) == threads[t].pc \in {"finally", "dead"}

\* Thread.is_alive(): from start() until run_detection has returned.
Alive(th) == th.pc \in {"spawned", "task", "loop", "finally"}

\* C15: in both loops a per-frame exception of landmark extraction or
\* feature computation is caught: it does not end the session and nothing
\* is raised to the caller of the task.
C15_FrameErrorDoesNotEndSession ==
    \A t \in Threads : threads[t].end # "frame_error" /\ ~threads[t].raised

\* C17: after a stop request, a detection loop that was running exits after
\* at most one further frame cycle.
C17_StopObservedWithinOneCycle ==
    \A t \in Threads : threads[t].pc = "loop" => threads[t].after_stop <= 1

\* C18: a task that has opened the camera and has ended, by whatever path,
\* has released its handle.
C18_CameraReleasedWhenLoopEnds ==
    \A t \in Threads : (Ended(t) /\ threads[t].opened) => threads[t].released

\* C19: while a detection thread is running and holds the camera, no start
\* request starts a second thread or is answered with success.
C19_NoSecondThreadWhileCameraHeld ==
    [][(\E t \in Threads : threads[t].pc = "loop" /\ Holds(t))
       => /\ \A u \in Threads : threads[u].pc = "unstarted" => threads'[u].pc = "unstarted"
          /\ ~(response' # response /\ response'.to = "start" /\ response'.success)]_vars

\* C20: a task whose camera could not be opened does not complete normally:
\* the failure reaches its caller as an exception.
C20_FailedOpenIsRaised ==
    \A t \in Threads : threads[t].end = "open_failed" => threads[t].raised

\* C30: after any sequence of start requests, stop requests and endings of
\* detection threads, get_monitoring_status reports is_monitoring true only
\* while a detection thread is alive, and monitoring_active is true only
\* while a detection thread is alive.
C30_StatusMatchesThread ==
    [][/\ (response' # response /\ response'.to = "status" /\ response'.is_monitoring)
            => \E t \in Threads : Alive(threads[t])
       /\ monitoring_active' => \E t \in Threads : Alive(threads'[t])]_vars

\* The second half of C30 alone: the module flag is true only while a
\* detection thread is alive.
FlagOnlyWhileThreadAlive ==
    monitoring_active => \E t \in Threads : Alive(threads[t])

\* ================================================================= SpecRatio
\* The two eye_aspect_ratio functions, called on their own.  An eye is six
\* landmark points; in the eyes used here points 1 and 5, and 2 and 4, lie one
\* above the other and points 0 and 3 side by side, so that the three
\* Euclidean distances are whole numbers.  Ratios are in hundredths, as the
\* thresholds are.
EyeOf(a, b, c) == <<(<<0, 0>>), (<<1, a>>), (<<2, b>>), (<<c, 0>>), (<<2, 0>>), (<<1, 0>>)>>

Eyes == {EyeOf(a, b, c) : a \in 0..MaxGap, b \in 0..MaxGap, c \in 0..MaxGap}

Abs(n) == IF n < 0 THEN -n ELSE n

\* dist.euclidean of two points that share a coordinate.
Euclidean(p, q) ==
    IF p[1] = q[1] THEN Abs(p[2] - q[2]) ELSE Abs(p[1] - q[1])

Value(n) == [kind |-> "value", value |-> n]

\* tasks.eye_aspect_ratio (lines 30-38): the outcomes of (A + B) / (2.0 * C).
\* With C = 0 the division is of a float by zero: ZeroDivisionError when the
\* distances are Python floats, inf or nan (and a warning) when they are
\* numpy floats, which depends on the scipy installed.
eye_aspect_ratio(eye) ==
    LET A == Euclidean(eye[2], eye[6])
        B == Euclidean(eye[3], eye[5])
        C == Euclidean(eye[1], eye[4])
    IN  IF C # 0 THEN {Value(((A + B) * 100) \div (2 * C))}
        ELSE {[kind |-> "ZeroDivisionError", value |-> 0],
              [kind |-> IF A + B > 0 THEN "inf" ELSE "nan", value |-> 0]}

\* MediaPipeDrowsinessDetector.eye_aspect_ratio (lines 39-53).
MPEyeAspectRatio(eye_landmarks) ==
    IF Len(eye_landmarks) < 6 THEN Value(DefaultEar)
    ELSE LET A == Euclidean(eye_landmarks[2], eye_landmarks[6])
             B == Euclidean(eye_landmarks[3], eye_landmarks[5])
             C == Euclidean(eye_landmarks[1], eye_landmarks[4])
         IN  IF C > 0 THEN Value(((A + B) * 100) \div (2 * C)) ELSE Value(DefaultEar)

CallMPEyeAspectRatio ==
    /\ \E eye \in Eyes : \E r \in {MPEyeAspectRatio(eye)} :
         ear_call' = [fn |-> "MediaPipeDrowsinessDetector.eye_aspect_ratio", eye |-> eye,
                      kind |-> r.kind, value |-> r.value]
    /\ UNCHANGED <<engineVars, replayVars, serviceVars, sessionVars, storeVars>>

CallEyeAspectRatio ==
    /\ \E eye \in Eyes : \E r \in eye_aspect_ratio(eye) :
         ear_call' = [fn |-> "tasks.eye_aspect_ratio", eye |-> eye,
                      kind |-> r.kind, value |-> r.value]
    /\ UNCHANGED <<engineVars, replayVars, serviceVars, sessionVars, storeVars>>

NextRatio == CallMPEyeAspectRatio \/ CallEyeAspectRatio

InitRatio ==
    EngineParked /\ ReplayParked /\ ServiceParked /\ SessionParked /\ StoreParked
    /\ RatioParked

SpecRatio == InitRatio /\ [][NextRatio]_vars

\* C26: for every eye whose points 0 and 3 are at distance 0, each of the two
\* eye_aspect_ratio functions returns the default 0.3, without a division by
\* zero and without raising.
C26_ZeroWidthEyeGivesDefault ==
    (ear_call.fn # "-" /\ Euclidean(ear_call.eye[1], ear_call.eye[4]) = 0) =>
        /\ ear_call.kind = "value"
        /\ ear_call.value = DefaultEar

\* ============================================================== SpecSettings
\* update_settings of views_refactored on the driver's UserSettings row.  A
\* POST field is absent, or holds text that is no number, or the text "nan",
\* or a number; the numbers are those on and next to the limits.
Missing == [kind |-> "missing", value |-> 0]
Text == [kind |-> "text", value |-> 0]
NaN == [kind |-> "nan", value |-> 0]
Num(n) == [kind |-> "num", value |-> n]
ValueError == [kind |-> "ValueError", value |-> 0]

Around(lo, hi) == {Num(lo - 1), Num(lo), Num(hi), Num(hi + 1)}

Posts ==
    [ear_threshold : {Missing, Text, NaN} \cup Around(EarThresholdMin, EarThresholdMax),
     ear_frames : {Missing, Text} \cup Around(EarFramesMin, EarFramesMax),
     yawn_threshold : {Missing, Text} \cup Around(YawnThresholdMin, YawnThresholdMax)]

\* float(request.POST.get(name, default)): "nan" is a float.
ParseFloat(x, default) ==
    CASE x.kind = "missing" -> Num(default)
      [] x.kind = "text" -> ValueError
      [] OTHER -> x

\* int(request.POST.get(name, default)): "nan" is not an int.
ParseInt(x, default) ==
    CASE x.kind = "missing" -> Num(default)
      [] x.kind = "num" -> x
      [] OTHER -> ValueError

\* lo <= v <= hi as Python evaluates it: false for nan.
Between(lo, v, hi) == v.kind = "num" /\ lo <= v.value /\ v.value <= hi

\* The range checks with those of ear_frames and yawn_threshold left out.
SettingsInRange_EarOnly(e, f, y) == Between(EarThresholdMin, e, EarThresholdMax)

\* Lines 174-184.
SettingsInRange(e, f, y) ==
    /\ Between(EarThresholdMin, e, EarThresholdMax)
    /\ Between(EarFramesMin, f, EarFramesMax)
    /\ Between(YawnThresholdMin, y, YawnThresholdMax)

\* update_settings (lines 164-210) with update_user_settings (user_service
\* lines 187-222): the row it leaves and how the request went, for
\* settings.save() going through and for its raising.
update_settings(row, post) ==
    LET e == ParseFloat(post.ear_threshold, DefaultEarThreshold)
        f == ParseInt(post.ear_frames, DefaultEarFrames)
        y == ParseInt(post.yawn_threshold, DefaultYawnThreshold)
    IN  IF ValueError \in {e, f, y} THEN {[row |-> row, result |-> "invalid"]}
        ELSE IF ~SettingsInRange(e, f, y) THEN {[row |-> row, result |-> "out_of_range"]}
        ELSE {[row |-> [ear_threshold |-> e.value, ear_frames |-> f.value,
                        yawn_threshold |-> y.value],
               result |-> "saved"],
              [row |-> row, result |-> "ValidationError"]}

SettingsInit ==
    /\ user_settings \in [ear_threshold : {EarThresholdMin, DefaultEarThreshold, EarThresholdMax},
                          ear_frames : {EarFramesMin, DefaultEarFrames, EarFramesMax},
                          yawn_threshold : {YawnThresholdMin, DefaultYawnThreshold,
                                            YawnThresholdMax}]
    /\ monitoring_session = [status |-> "-", start_time |-> -1, end_time |-> -1,
                             duration |-> -1]
    /\ clock = 0
    /\ store_last = [op |-> "-", result |-> "-", post |-> <<>>]

UpdateSettings ==
    /\ \E post \in Posts :
         \E r \in update_settings(user_settings, post) :
             /\ user_settings' = r.row
             /\ store_last' = [op |-> "update_settings", result |-> r.result, post |-> post]
    /\ UNCHANGED <<monitoring_session, clock>>
    /\ UNCHANGED <<engineVars, replayVars, serviceVars, sessionVars, ratioVars>>

NextSettings == UpdateSettings

InitSettings ==
    EngineParked /\ ReplayParked /\ ServiceParked /\ SessionParked /\ RatioParked
    /\ SettingsInit

SpecSettings == InitSettings /\ [][NextSettings]_vars

\* A posted value that is a number outside its limits, or no number at all
\* where one that is a float is asked for.
Outside(lo, v, hi) == v.kind = "nan" \/ (v.kind = "num" /\ (v.value < lo \/ v.value > hi))

\* C22: after any sequence of update_settings requests from in-range
\* settings the stored settings have 0.1 <= ear_threshold <= 0.8,
\* 5 <= ear_frames <= 100 and 5 <= yawn_threshold <= 50, and a request with
\* any one of the three values out of range leaves all of them as they were.
C22_StoredSettingsStayInRange ==
    [][store_last'.op = "update_settings" =>
          /\ EarThresholdMin <= user_settings'.ear_threshold
          /\ user_settings'.ear_threshold <= EarThresholdMax
          /\ EarFramesMin <= user_settings'.ear_frames
          /\ user_settings'.ear_frames <= EarFramesMax
          /\ YawnThresholdMin <= user_settings'.yawn_threshold
          /\ user_settings'.yawn_threshold <= YawnThresholdMax
          /\ (\/ Outside(EarThresholdMin, store_last'.post.ear_threshold, EarThresholdMax)
              \/ Outside(EarFramesMin, store_last'.post.ear_frames, EarFramesMax)
              \/ Outside(YawnThresholdMin, store_last'.post.yawn_threshold,
                         YawnThresholdMax))
                => UNCHANGED user_settings]_vars

\* A request with ear_frames one above its limit and the other two values
\* good has been refused, the row an earlier request has written still there.
C22_Witness ==
    /\ store_last.op = "update_settings" /\ store_last.result = "out_of_range"
    /\ store_last.post.ear_threshold = Num(EarThresholdMin)
    /\ store_last.post.ear_frames = Num(EarFramesMax + 1)
    /\ store_last.post.yawn_threshold = Num(YawnThresholdMax)
    /\ user_settings = [ear_threshold |-> EarThresholdMax, ear_frames |-> EarFramesMax,
                        yawn_threshold |-> YawnThresholdMin]

\* ============================================================== SpecSessions
\* One MonitoringSession object: constructed and not saved, or created in the
\* database, and ended.  Times are readings of timezone.now(); a reading
\* taken after a database write is later than one taken before it.  None is
\* -1.
SESSION_STATUS == {"active", "completed", "interrupted", "failed"}

\* end_session doing its work whatever the status.
end_session_NoStatusCheck(session, now, saved_at) ==
    [status |-> "completed",
     end_time |-> now,
     duration |-> IF session.start_time # -1 THEN now - session.start_time
                  ELSE session.duration,
     start_time |-> IF session.start_time # -1 THEN session.start_time ELSE saved_at]

\* end_session (lines 340-347): the object after the call.  now is the
\* reading of line 343; saved_at the one auto_now_add takes when self.save()
\* inserts an object that was never saved.
end_session(session, now, saved_at) ==
    IF session.status = "active"
    THEN [status |-> "completed",
          end_time |-> now,
          duration |-> IF session.start_time # -1 THEN now - session.start_time
                       ELSE session.duration,
          start_time |-> IF session.start_time # -1 THEN session.start_time ELSE saved_at]
    ELSE session

SessionsInit == StoreParked

\* MonitoringSession(driver=..., status=...): an object in memory.
NewSession ==
    /\ \E st \in SESSION_STATUS :
         monitoring_session' = [status |-> st, start_time |-> -1, end_time |-> -1,
                                duration |-> -1]
    /\ store_last' = [op |-> "MonitoringSession", result |-> "-", post |-> <<>>]
    /\ UNCHANGED <<user_settings, clock>>
    /\ UNCHANGED <<engineVars, replayVars, serviceVars, sessionVars, ratioVars>>

\* MonitoringSession.objects.create(driver=..., status=...): auto_now_add
\* gives start_time.
CreateSession ==
    /\ \E st \in SESSION_STATUS, d \in 1..2 :
         /\ clock + d <= MaxClock
         /\ clock' = clock + d
         /\ monitoring_session' = [status |-> st, start_time |-> clock + d,
                                    end_time |-> -1, duration |-> -1]
    /\ store_last' = [op |-> "create", result |-> "saved", post |-> <<>>]
    /\ UNCHANGED user_settings
    /\ UNCHANGED <<engineVars, replayVars, serviceVars, sessionVars, ratioVars>>

\* A call of end_session on the object.
EndSession ==
    /\ monitoring_session.status # "-"
    /\ IF monitoring_session.status = "active"
       THEN \E d \in 1..2, late \in 0..1 :
              \E now \in {clock + d} :
                \E saved_at \in {IF monitoring_session.start_time = -1 THEN now + late
                                  ELSE now} :
                  /\ saved_at <= MaxClock
                  /\ clock' = saved_at
                  /\ monitoring_session' = end_session(monitoring_session, now, saved_at)
                  /\ store_last' = [op |-> "end_session", result |-> "saved",
                                    post |-> <<>>]
       ELSE /\ monitoring_session' = end_session(monitoring_session, clock, clock)
            /\ store_last' = [op |-> "end_session", result |-> "unchanged", post |-> <<>>]
            /\ UNCHANGED clock
    /\ UNCHANGED user_settings
    /\ UNCHANGED <<engineVars, replayVars, serviceVars, sessionVars, ratioVars>>

NextSessions == NewSession \/ CreateSession \/ EndSession

InitSessions ==
    EngineParked /\ ReplayParked /\ ServiceParked /\ SessionParked /\ RatioParked
    /\ SessionsInit

SpecSessions == InitSessions /\ [][NextSessions]_vars

\* C25 as stated: end_session moves every active session to 'completed' with
\* end_time set, later than start_time, and duration = end_time -
\* start_time; on a session that is not active it changes nothing.
C25_EndSessionCompletesOnce ==
    [][store_last'.op = "end_session" =>
          IF monitoring_session.status = "active"
          THEN /\ monitoring_session'.status = "completed"
               /\ monitoring_session'.end_time # -1
               /\ monitoring_session'.end_time > monitoring_session'.start_time
               /\ monitoring_session'.duration =
                      monitoring_session'.end_time - monitoring_session'.start_time
          ELSE UNCHANGED monitoring_session]_vars

\* C25, amended: end_session moves an active session that has been saved
\* (start_time set) to 'completed' with end_time set, later than the
\* unchanged start_time, and duration = end_time - start_time; an active
\* session never saved becomes 'completed' with end_time set; on a session
\* that is not active, a second call included, it changes nothing.
C25_EndSessionOfSavedSession ==
    [][store_last'.op = "end_session" =>
          IF monitoring_session.status = "active"
          THEN /\ monitoring_session'.status = "completed"
               /\ monitoring_session'.end_time # -1
               /\ monitoring_session.start_time # -1 =>
                     /\ monitoring_session'.start_time = monitoring_session.start_time
                     /\ monitoring_session'.end_time > monitoring_session'.start_time
                     /\ monitoring_session'.duration =
                            monitoring_session'.end_time - monitoring_session'.start_time
          ELSE UNCHANGED monitoring_session]_vars

\* A second call on a session the first call has completed, two ticks long.
C25_Witness ==
    /\ store_last.op = "end_session" /\ store_last.result = "unchanged"
    /\ monitoring_session.status = "completed"
    /\ monitoring_session.start_time # -1
    /\ monitoring_session.duration = 2
    /\ monitoring_session.end_time = monitoring_session.start_time + 2

====
